---- MODULE Spec2Model ----
(***************************************************************************)
(* A model of namegen (src/main.py): the name extraction pass over the     *)
(* JMnedict stream (parse_japanese_names) and the program's runs over the  *)
(* data directory (download_if_missing, the two extraction helpers,        *)
(* ensure_data_prepared and main).                                         *)
(*                                                                         *)
(* Text is a sequence of code points, so that len(), str.strip(),          *)
(* str.title(), re.fullmatch() and sorted() are computed on characters.    *)
(***************************************************************************)
EXTENDS Integers, Sequences, FiniteSets, TLC

VARIABLES
    \* ---- parse_japanese_names (one call) ----
    stream,               \* the elements iterparse yields, in order
    idx,                  \* position of the next element of the stream
    given_names,          \* set of names of entries with a name_type
    fallback_candidates,  \* set of names of entries without one
    total_entries,        \* local counter (every element)
    processed_entries,    \* local counter (every entry)
    base,                 \* the reading chosen in the last iteration
    romaji,               \* to_romaji(base) of the last iteration
    outcome,              \* what the last iteration did with its element
    pcP,                  \* "loop", "returned" or "raised"
    result,               \* the returned list
    \* ---- the data directory ----
    jm_xml,               \* data/JMnedict.xml
    jm_gz,                \* data/JMnedict.xml.gz
    jm_zip,               \* data/JMnedict.xml.zip
    jm_tmp,               \* data/JMnedict.xml.tmp
    csv,                  \* data/Names_2010Census.csv
    us_zip,               \* data/us_surnames.zip
    cache,                \* data/jp_names.txt
    \* ---- one run of the program ----
    pc,                   \* where the run is; "idle" and "exited" between runs
    jp_names_available,   \* local of ensure_data_prepared
    attempts,             \* outcome of each mirror tried, in order
    last_error,           \* mirror whose error last_error holds (0: None)
    error,                \* the exception that ended the run
    cause,                \* __cause__ of that exception (a mirror, or 0)
    fetched,              \* the sources contacted in this run
    dictAtStart,          \* a form of the dictionary existed when the run began
    censusAtStart,        \* a form of the surname table existed then
    prevOk,               \* the run follows a successful one, nothing changed between
    parsed,               \* parse_japanese_names was called in this run
    names,                \* what it returned
    jp_names,             \* local of main
    west_surnames,        \* local of main
    stdout,               \* the lines printed
    ret,                  \* what main returned (-1: it did not return)
    exit_status           \* the status the process ended with (-1: running)

varsP == <<stream, idx, given_names, fallback_candidates, total_entries,
           processed_entries, base, romaji, outcome, pcP, result>>

varsF == <<jm_xml, jm_gz, jm_zip, jm_tmp, csv, us_zip, cache>>

varsD == <<jm_xml, jm_gz, jm_zip, jm_tmp>>

varsS == <<jp_names_available, dictAtStart, censusAtStart, prevOk>>

varsM == <<attempts, last_error, cause, fetched>>

varsO == <<parsed, names, jp_names, west_surnames, stdout, ret>>

varsR == <<pc, error, exit_status, varsS, varsM, varsO>>

vars == <<varsP, varsF, varsR>>

----------------------------------------------------------------------------
(* Bounds of the model.                                                    *)

MaxEntries == 3     \* longest stream of sample elements
MaxReb == 2         \* most reb texts of a generated entry
MaxKeb == 2         \* most keb texts of a generated entry

----------------------------------------------------------------------------
(* Characters.                                                             *)

IsUpper(c) == c \in 65..90
IsLower(c) == c \in 97..122
IsAlpha(c) == IsUpper(c) \/ IsLower(c)
IsSpace(c) == c = 32 \/ c \in 9..13
ToUpper(c) == IF IsLower(c) THEN c - 32 ELSE c
ToLower(c) == IF IsUpper(c) THEN c + 32 ELSE c

Range(s) == {s[i] : i \in DOMAIN s}

\* _KKS.convert: the hepburn text of one character.  Kana and kanji have a
\* reading; every other character is passed through unchanged.
KksHepburn(c) ==
    CASE c = 12354 -> <<97>>              \* U+3042 -> "a"
      [] c = 12356 -> <<105>>             \* U+3044 -> "i"
      [] c = 12371 -> <<107, 111>>        \* U+3053 -> "ko"
      [] c = 12375 -> <<115, 104, 105>>   \* U+3057 -> "shi"
      [] c = 24859 -> <<97, 105>>         \* U+611B -> "ai"
      [] OTHER -> <<c>>

RECURSIVE JoinHepburn(_)
JoinHepburn(text) ==
    IF text = <<>> THEN <<>>
    ELSE KksHepburn(Head(text)) \o JoinHepburn(Tail(text))

RECURSIVE LStrip(_)
LStrip(s) == IF s # <<>> /\ IsSpace(Head(s)) THEN LStrip(Tail(s)) ELSE s

RECURSIVE RStrip(_)
RStrip(s) ==
    IF s # <<>> /\ IsSpace(s[Len(s)]) THEN RStrip(SubSeq(s, 1, Len(s) - 1))
    ELSE s

Strip(s) == RStrip(LStrip(s))

\* str.title(): a letter that follows a non-letter (or starts the text) is
\* upper-cased, every other letter lower-cased.
Title(s) ==
    [i \in DOMAIN s |->
        IF ~IsAlpha(s[i]) THEN s[i]
        ELSE IF i = 1 \/ ~IsAlpha(s[i - 1]) THEN ToUpper(s[i])
        ELSE ToLower(s[i])]

to_romaji(text) == Title(Strip(JoinHepburn(text)))

----------------------------------------------------------------------------
(* The loop body of parse_japanese_names.                                  *)

ends(tag, name) == tag = name

\* [r.text for r in elem.iter() if _ends(r.tag, ...) and r.text]
NonEmptyTexts(texts) == SelectSeq(texts, LAMBDA t : t # <<>>)

has_name_type(elem) == NonEmptyTexts(elem.name_type) # <<>>
kana_readings(elem) == NonEmptyTexts(elem.reb)
kanji_readings(elem) == NonEmptyTexts(elem.keb)

\* re.fullmatch(r"[U+3040-U+30FF]+", r)
FullMatchKana(r) == r # <<>> /\ \A i \in DOMAIN r : r[i] \in 12352..12543

only_kana(readings) == SelectSeq(readings, FullMatchKana)

\* a minimum that lets a later element of the same length win
RECURSIVE MinFromLast(_, _)
MinFromLast(best, rest) ==
    IF rest = <<>> THEN best
    ELSE IF Len(Head(rest)) <= Len(best) THEN MinFromLast(Head(rest), Tail(rest))
    ELSE MinFromLast(best, Tail(rest))

\* min(xs, key=len): the first element that no earlier one matches in length
\* and no element beats.
RECURSIVE MinFrom(_, _)
MinFrom(best, rest) ==
    IF rest = <<>> THEN best
    ELSE IF Len(Head(rest)) < Len(best) THEN MinFrom(Head(rest), Tail(rest))
    ELSE MinFrom(best, Tail(rest))

MinByLen(xs) == MinFrom(Head(xs), Tail(xs))

ChooseBase(elem) ==
    IF kana_readings(elem) # <<>>
    THEN IF only_kana(kana_readings(elem)) # <<>>
         THEN MinByLen(only_kana(kana_readings(elem)))
         ELSE MinByLen(kana_readings(elem))
    ELSE MinByLen(kanji_readings(elem))

\* re.fullmatch(r"[A-Za-z][A-Za-z' -]*", romaji), matched left to right
RECURSIVE MatchTail(_)
MatchTail(s) ==
    \/ s = <<>>
    \/ /\ s # <<>>
       /\ IsAlpha(Head(s)) \/ Head(s) \in {39, 32, 45}
       /\ MatchTail(Tail(s))

FullMatchName(s) == s # <<>> /\ IsAlpha(Head(s)) /\ MatchTail(Tail(s))

MinNameLen == 2
MaxNameLen == 14

\* the upper limit taken one too far
NameOkUpTo15(s) == MinNameLen <= Len(s) /\ Len(s) <= MaxNameLen + 1 /\ FullMatchName(s)

\* lines 192-194
NameOk(s) == MinNameLen <= Len(s) /\ Len(s) <= MaxNameLen /\ FullMatchName(s)

\* sorted(): ascending by code points, a proper prefix first
RECURSIVE LexLess(_, _)
LexLess(a, b) ==
    IF a = <<>> THEN b # <<>>
    ELSE IF b = <<>> THEN FALSE
    ELSE IF Head(a) # Head(b) THEN Head(a) < Head(b)
    ELSE LexLess(Tail(a), Tail(b))

RECURSIVE Sorted(_)
Sorted(S) ==
    IF S = {} THEN <<>>
    ELSE LET m == CHOOSE x \in S : \A y \in S \ {x} : LexLess(x, y)
         IN  <<m>> \o Sorted(S \ {m})

\* the fallback candidates used only when nothing is marked as given
CombinedGivenFirst(given, fallback) == IF given # {} THEN given ELSE fallback

\* line 210: combined = given_names | fallback_candidates
Combined(given, fallback) == given \union fallback

NoBase == <<>>

\* One pass of the loop body over elem: the sets after it, and what it chose.
LoopBody(given, fallback, elem) ==
    IF ~ends(elem.tag, "entry")
    THEN [given |-> given, fallback |-> fallback, base |-> NoBase,
          romaji |-> NoBase, outcome |-> "not_entry"]
    ELSE IF kana_readings(elem) = <<>> /\ kanji_readings(elem) = <<>>
    THEN [given |-> given, fallback |-> fallback, base |-> NoBase,
          romaji |-> NoBase, outcome |-> "no_reading"]
    ELSE LET b == ChooseBase(elem)
             r == to_romaji(b)
         IN  IF ~NameOk(r)
             THEN [given |-> given, fallback |-> fallback, base |-> b,
                   romaji |-> r, outcome |-> "rejected"]
             ELSE IF has_name_type(elem)
             THEN [given |-> given \union {r}, fallback |-> fallback,
                   base |-> b, romaji |-> r, outcome |-> "given"]
             ELSE [given |-> given, fallback |-> fallback \union {r},
                   base |-> b, romaji |-> r, outcome |-> "fallback"]

\* The whole function on a stream: the returned list, or the error raised.
RECURSIVE ParseFrom(_, _, _)
ParseFrom(given, fallback, rest) ==
    IF rest = <<>>
    THEN IF Combined(given, fallback) = {}
         THEN [raised |-> TRUE, names |-> <<>>]
         ELSE [raised |-> FALSE, names |-> Sorted(Combined(given, fallback))]
    ELSE LET n == LoopBody(given, fallback, Head(rest))
         IN  ParseFrom(n.given, n.fallback, Tail(rest))

parse_japanese_names(xml) == ParseFrom({}, {}, xml)

----------------------------------------------------------------------------
(* Inputs of the extraction pass.                                          *)

Given == <<103, 105, 118, 101, 110>>                   \* "given"
KanaA == <<12354>>
KanaAi == <<12354, 12356>>
KanaKoi == <<12371, 12356>>
KanaAiko == <<12354, 12356, 12371>>
Kana14 == <<12375, 12375, 12375, 12375, 12371>>        \* 4 * "shi" + "ko"
Kana15 == <<12375, 12375, 12375, 12375, 12375>>        \* 5 * "shi"
LatinK == <<107>>                                      \* "k"
KanjiAi == <<24859>>
KanjiAiko == <<24859, 12371>>

Entry(nt, reb, keb) == [tag |-> "entry", name_type |-> nt, reb |-> reb, keb |-> keb]

\* Elements chosen for what the loop does with them.
SampleElements ==
    { [tag |-> "JMnedict", name_type |-> <<>>, reb |-> <<>>, keb |-> <<>>],
      Entry(<<Given>>, <<KanaAi>>, <<>>),                    \* "Ai", tagged
      Entry(<<>>, <<KanaAi>>, <<KanjiAi>>),                  \* "Ai", untagged
      Entry(<<>>, <<KanaKoi>>, <<>>),                        \* "Koi"
      Entry(<<Given>>, <<KanaA>>, <<>>),                     \* "A": length 1
      Entry(<<Given>>, <<Kana14>>, <<>>),                    \* length 14
      Entry(<<>>, <<Kana15>>, <<>>),                         \* length 15
      Entry(<<Given>>, <<<<49, 12354>>>>, <<>>),             \* "1A": digit first
      Entry(<<>>, <<<<45, 12354>>>>, <<>>),                  \* "-A": hyphen first
      Entry(<<<<>>>>, <<<<111, 39, 107, 111>>>>, <<>>),      \* "O'Ko", empty tag text
      Entry(<<Given>>, <<<<32, 97, 45, 105, 32>>>>, <<>>),   \* " a-i " -> "A-I"
      Entry(<<Given>>, <<>>, <<>>) }                         \* no reading

RebTexts == {<<>>, KanaA, KanaAi, KanaKoi, KanaAiko, LatinK}
KebTexts == {<<>>, KanjiAi, KanjiAiko}

SeqsUpTo(S, n) == UNION {[1..k -> S] : k \in 0..n}

GenEntries ==
    {Entry(nt, reb, keb) : nt \in {<<>>, <<Given>>},
                           reb \in SeqsUpTo(RebTexts, MaxReb),
                           keb \in SeqsUpTo(KebTexts, MaxKeb)}

Streams == SeqsUpTo(SampleElements, MaxEntries) \union {<<e>> : e \in GenEntries}

----------------------------------------------------------------------------
(* The data directory and what the files hold.                             *)
(* A dictionary file is "absent", "partial" (bytes that are not a whole    *)
(* file of its format) or names the dictionary it holds in full.           *)

Root == [tag |-> "JMnedict", name_type |-> <<>>, reb |-> <<>>, keb |-> <<>>]

Dicts == {"d0", "d1", "d2"}

\* the elements iterparse yields for a whole JMnedict.xml
DictXml(d) ==
    CASE d = "d1" -> <<Entry(<<Given>>, <<KanaKoi>>, <<>>),
                       Entry(<<>>, <<KanaAi>>, <<>>), Root>>
      [] d = "d2" -> <<Entry(<<Given>>, <<KanaAiko>>, <<KanjiAiko>>), Root>>
      [] OTHER -> <<Entry(<<Given>>, <<KanaA>>, <<>>), Root>>

\* the mirrors of download_if_missing, in list order: (url, insecure, target)
Sources ==
    << [url |-> "https://ftp.edrdg.org", insecure |-> TRUE, target |-> "gz"],
       [url |-> "https://ftp.usf.edu", insecure |-> FALSE, target |-> "gz"],
       [url |-> "http://ftp.edrdg.org", insecure |-> FALSE, target |-> "gz"],
       [url |-> "https://raw.githubusercontent.com", insecure |-> FALSE,
        target |-> "zip"] >>

CensusUrl == "https://www2.census.gov"

\* what a transfer that curl reports as done can leave in the target
Served(target) ==
    IF target = "gz" THEN {"d1", "partial"} ELSE {"d1", "nomember", "partial"}

Smith == <<83, 77, 73, 84, 72>>        \* "SMITH"
Lee == <<108, 101, 101>>               \* "lee"
Str(t) == [str |-> TRUE, text |-> t]
NaN == [str |-> FALSE, text |-> <<>>]

\* census["name"] of a readable CSV
NameColumn(kind) ==
    IF kind = "names" THEN <<Str(Smith), Str(Lee), NaN, Str(Title(Smith))>>
    ELSE <<NaN>>

Absent == [exists |-> FALSE, lines |-> <<>>]
File(lines) == [exists |-> TRUE, lines |-> lines]

\* cache files a user may leave: none, an empty one, blank lines only, names
EnvCaches ==
    { Absent, File(<<>>), File(<< <<>>, <<32>> >>),
      File(<< <<32, 75, 111, 105, 32>>, <<>> >>) }

----------------------------------------------------------------------------
(* The decisions of the run, as the code takes them.                       *)

\* only the canonical form looked at
DictPresentXmlOnly(xml, gz, zip) == xml # "absent"

\* line 59: any(p.exists() for p in (jm_gz, jm_xml, jm_zip))
DictPresent(xml, gz, zip) == gz # "absent" \/ xml # "absent" \/ zip # "absent"

\* line 261: jp_names_path.exists() and jp_names_path.stat().st_size > 0
JpNamesAvailable(f) == f.exists /\ Len(f.lines) > 0

\* the loop without its break
MirrorLoopNoBreak(k, out) ==
    IF out = "ok" \/ out = "CalledProcessError"
    THEN IF k < Len(Sources) THEN "next" ELSE "raise_all"
    ELSE "propagate"

\* lines 80-87: what the for/else does after attempt k ended with out
MirrorLoop(k, out) ==
    IF out = "ok" THEN "break"
    ELSE IF out = "CalledProcessError"
    THEN IF k < Len(Sources) THEN "next" ELSE "raise_all"
    ELSE "propagate"

\* lines 119-120: the surname URL is fetched
CensusFetchNeeded(c, z) == c = "absent" /\ z = "absent"

\* the names extracted again in every run
AfterDownloadAlwaysParse(available) == "parse"

\* line 267: what ensure_data_prepared does after download_if_missing
AfterDownload(available) == IF available THEN "load" ELSE "parse"

\* line 250: [line.strip() for line in f if line.strip()]
RECURSIVE NonBlank(_)
NonBlank(lines) ==
    IF lines = <<>> THEN <<>>
    ELSE IF Strip(Head(lines)) # <<>>
    THEN <<Strip(Head(lines))>> \o NonBlank(Tail(lines))
    ELSE NonBlank(Tail(lines))

\* load_from_jp_names_file, the read succeeding or not
load_from_jp_names_file(f, readOk) ==
    IF ~f.exists THEN <<>>
    ELSE IF readOk THEN NonBlank(f.lines)
    ELSE <<>>

\* parse_western_surnames on a readable CSV
parse_western_surnames(kind) ==
    Sorted({Title(NameColumn(kind)[i].text) :
               i \in {j \in DOMAIN NameColumn(kind) : NameColumn(kind)[j].str}})

\* result.lower().replace(" ", "-")
Slug(s) == [i \in DOMAIN s |-> IF s[i] = 32 THEN 45 ELSE ToLower(s[i])]

\* generate_name for the two elements random.choice drew
generate_name(g, w) == g \o <<32>> \o w

\* lines 299-300: main() is called and its value dropped; the status is that
\* of the interpreter, 1 after an uncaught exception
ProcessExitStatus(returned, err) == IF err # "none" THEN 1 ELSE 0

NoNamesMessage == <<78, 111>>     \* "No Japanese names available. ..."

----------------------------------------------------------------------------
(* The runs of the program.                                                *)

InitRunLocals ==
    /\ error = "none"
    /\ exit_status = -1
    /\ jp_names_available = FALSE
    /\ dictAtStart = FALSE
    /\ censusAtStart = FALSE
    /\ prevOk = FALSE
    /\ attempts = <<>>
    /\ last_error = 0
    /\ cause = 0
    /\ fetched = {}
    /\ parsed = FALSE
    /\ names = <<>>
    /\ jp_names = <<>>
    /\ west_surnames = <<>>
    /\ stdout = <<>>
    /\ ret = -1

InitFiles ==
    /\ jm_xml = "absent"
    /\ jm_gz = "absent"
    /\ jm_zip = "absent"
    /\ jm_tmp = "absent"
    /\ csv = "absent"
    /\ us_zip = "absent"
    /\ cache = Absent

InitIdle == pc = "idle" /\ InitRunLocals /\ InitFiles

\* an uncaught exception ends the process
Abort(err) ==
    /\ pc' = "exited"
    /\ error' = err
    /\ exit_status' = ProcessExitStatus(-1, err)

Goto(l) == pc' = l /\ UNCHANGED <<error, exit_status>>

Running == pc \notin {"idle", "exited"}

\* main -> ensure_data_prepared, lines 260-261: the cache file is inspected
StartRun ==
    /\ ~Running
    /\ dictAtStart' = (jm_xml # "absent" \/ jm_gz # "absent" \/ jm_zip # "absent")
    /\ censusAtStart' = (csv # "absent" \/ us_zip # "absent")
    /\ prevOk' = (pc = "exited" /\ error = "none" /\ ret = 0)
    /\ attempts' = <<>>
    /\ last_error' = 0
    /\ cause' = 0
    /\ fetched' = {}
    /\ parsed' = FALSE
    /\ names' = <<>>
    /\ jp_names' = <<>>
    /\ west_surnames' = <<>>
    /\ stdout' = <<>>
    /\ ret' = -1
    /\ jp_names_available' = JpNamesAvailable(cache)
    /\ pc' = "download"
    /\ error' = "none"
    /\ exit_status' = -1
    /\ UNCHANGED <<varsP, varsF>>

\* download_if_missing, line 59
DownloadCheck ==
    /\ pc = "download"
    /\ IF DictPresent(jm_xml, jm_gz, jm_zip) THEN Goto("extract_zip")
       ELSE Goto("mirror")
    /\ UNCHANGED <<varsP, varsF, varsS, varsM, varsO>>

\* lines 80-87: one round of the loop over the sources
TryMirror ==
    /\ pc = "mirror"
    /\ LET k == Len(attempts) + 1
           src == Sources[k]
       IN  \E out \in {"ok", "CalledProcessError", "OSError"} :
             /\ attempts' = Append(attempts, out)
             /\ fetched' = IF out = "OSError" THEN fetched
                           ELSE fetched \union {src.url}
             /\ last_error' = IF out = "CalledProcessError" THEN k ELSE last_error
             \* the target: what was served, or what an ended transfer left
             /\ \E c \in IF out = "ok" THEN Served(src.target)
                         ELSE IF out = "CalledProcessError"
                         THEN {"partial", IF src.target = "gz" THEN jm_gz ELSE jm_zip}
                         ELSE {IF src.target = "gz" THEN jm_gz ELSE jm_zip} :
                   /\ jm_gz' = IF src.target = "gz" THEN c ELSE jm_gz
                   /\ jm_zip' = IF src.target = "zip" THEN c ELSE jm_zip
             /\ CASE MirrorLoop(k, out) = "break" ->
                       Goto("extract_zip") /\ cause' = cause
                  [] MirrorLoop(k, out) = "next" ->
                       Goto("mirror") /\ cause' = cause
                  [] MirrorLoop(k, out) = "raise_all" ->
                       Abort("AllSourcesFailed") /\ cause' = last_error'
                  [] OTHER ->
                       Abort(out) /\ cause' = cause
    /\ UNCHANGED <<varsP, jm_xml, jm_tmp, csv, us_zip, cache, varsS, varsO>>

\* _extract_jmnedict_files, lines 96-105: the zip is opened, the member
\* looked up and the temporary file created
ExtractZipOpen ==
    /\ pc = "extract_zip"
    /\ IF jm_zip # "absent" /\ jm_xml = "absent"
       THEN IF jm_zip = "partial"
            THEN Abort("BadZipFile") /\ UNCHANGED jm_tmp
            ELSE IF jm_zip = "nomember"
            THEN Abort("MemberNotFound") /\ UNCHANGED jm_tmp
            ELSE Goto("zip_copy") /\ jm_tmp' = "partial"
       ELSE Goto("extract_gz") /\ UNCHANGED jm_tmp
    /\ UNCHANGED <<varsP, jm_xml, jm_gz, jm_zip, csv, us_zip, cache,
                   varsS, varsM, varsO>>

\* line 106: shutil.copyfileobj(src, dst) into the temporary file
ZipCopy ==
    /\ pc = "zip_copy"
    /\ \/ Goto("zip_rename") /\ jm_tmp' = jm_zip
       \/ Abort("OSError") /\ UNCHANGED jm_tmp
    /\ UNCHANGED <<varsP, jm_xml, jm_gz, jm_zip, csv, us_zip, cache,
                   varsS, varsM, varsO>>

\* line 107: tmp.rename(jm_xml)
ZipRename ==
    /\ pc = "zip_rename"
    /\ jm_xml' = jm_tmp
    /\ jm_tmp' = "absent"
    /\ Goto("extract_gz")
    /\ UNCHANGED <<varsP, jm_gz, jm_zip, csv, us_zip, cache, varsS, varsM, varsO>>

\* lines 109-111: gzip.open(jm_gz), open(jm_xml, "wb")
ExtractGzOpen ==
    /\ pc = "extract_gz"
    /\ IF jm_gz # "absent" /\ jm_xml = "absent"
       THEN Goto("gz_copy") /\ jm_xml' = "partial"
       ELSE Goto("census") /\ UNCHANGED jm_xml
    /\ UNCHANGED <<varsP, jm_gz, jm_zip, jm_tmp, csv, us_zip, cache,
                   varsS, varsM, varsO>>

\* line 112: shutil.copyfileobj(src, dst) into JMnedict.xml
GzCopy ==
    /\ pc = "gz_copy"
    /\ \/ /\ jm_gz # "partial"
          /\ Goto("census")
          /\ jm_xml' = jm_gz
       \/ /\ jm_gz = "partial"
          /\ Abort("BadGzipFile")
          /\ UNCHANGED jm_xml
       \/ Abort("OSError") /\ UNCHANGED jm_xml
    /\ UNCHANGED <<varsP, jm_gz, jm_zip, jm_tmp, csv, us_zip, cache,
                   varsS, varsM, varsO>>

\* _extract_census_data, lines 119-124
CensusFetch ==
    /\ pc = "census"
    /\ IF csv # "absent"
       THEN /\ Goto(AfterDownload(jp_names_available))
            /\ UNCHANGED <<us_zip, fetched>>
       ELSE IF CensusFetchNeeded(csv, us_zip)
       THEN /\ fetched' = fetched \union {CensusUrl}
            /\ \/ Goto("unzip") /\ us_zip' \in {"good", "nocsv", "partial"}
               \/ Abort("CalledProcessError") /\ us_zip' \in {"absent", "partial"}
       ELSE /\ Goto("unzip")
            /\ UNCHANGED <<us_zip, fetched>>
    /\ UNCHANGED <<varsP, varsD, csv, cache, varsS, attempts, last_error, cause,
                   varsO>>

\* line 126: unzip -j us_surnames.zip -d data
CensusUnzip ==
    /\ pc = "unzip"
    /\ IF us_zip = "good"
       THEN Goto(AfterDownload(jp_names_available)) /\ csv' = "names"
       ELSE IF us_zip = "nocsv"
       THEN Goto(AfterDownload(jp_names_available)) /\ UNCHANGED csv
       ELSE Abort("CalledProcessError") /\ UNCHANGED csv
    /\ UNCHANGED <<varsP, varsD, us_zip, cache, varsS, varsM, varsO>>

\* ensure_data_prepared, line 268: parse_japanese_names()
Parse ==
    /\ pc = "parse"
    /\ parsed' = TRUE
    /\ LET f == IF jm_xml # "absent" THEN jm_xml ELSE jm_gz
       IN  IF f = "absent" THEN Abort("FileNotFoundError") /\ UNCHANGED names
           ELSE IF f \notin Dicts THEN Abort("ParseError") /\ UNCHANGED names
           ELSE IF parse_japanese_names(DictXml(f)).raised
           THEN Abort("NoNamesFound") /\ UNCHANGED names
           ELSE /\ Goto("cache_open")
                /\ names' = parse_japanese_names(DictXml(f)).names
    /\ UNCHANGED <<varsP, varsF, varsS, varsM, jp_names, west_surnames, stdout, ret>>

\* line 271: open(jp_names_path, "w")
CacheOpen ==
    /\ pc = "cache_open"
    /\ \/ Goto("cache_write") /\ cache' = File(<<>>)
       \/ Abort("CacheWriteError") /\ UNCHANGED cache
    /\ UNCHANGED <<varsP, varsD, csv, us_zip, varsS, varsM, varsO>>

\* lines 272-273: the names are written, one per line
CacheWrite ==
    /\ pc = "cache_write"
    /\ \/ Goto("load") /\ cache' = File(names)
       \/ /\ Abort("CacheWriteError")
          /\ \E n \in 0..(Len(names) - 1) : cache' = File(SubSeq(names, 1, n))
    /\ UNCHANGED <<varsP, varsD, csv, us_zip, varsS, varsM, varsO>>

\* main, lines 283-286
Load ==
    /\ pc = "load"
    /\ \E readOk \in BOOLEAN :
          /\ jp_names' = load_from_jp_names_file(cache, readOk)
          /\ IF jp_names' = <<>>
             THEN /\ stdout' = <<NoNamesMessage>>
                  /\ ret' = 1
                  /\ pc' = "exited"
                  /\ exit_status' = ProcessExitStatus(1, error)
                  /\ UNCHANGED error
             ELSE /\ Goto("surnames")
                  /\ UNCHANGED <<stdout, ret>>
    /\ UNCHANGED <<varsP, varsF, varsS, varsM, parsed, names, west_surnames>>

\* main, line 289: parse_western_surnames()
Surnames ==
    /\ pc = "surnames"
    /\ IF csv = "absent" THEN Abort("FileNotFoundError") /\ UNCHANGED west_surnames
       ELSE IF csv = "malformed" THEN Abort("KeyError") /\ UNCHANGED west_surnames
       ELSE Goto("generate") /\ west_surnames' = parse_western_surnames(csv)
    /\ UNCHANGED <<varsP, varsF, varsS, varsM, parsed, names, jp_names, stdout, ret>>

\* main, lines 292-296: generate_name, the two prints, return 0
Generate ==
    /\ pc = "generate"
    /\ IF jp_names = <<>> \/ west_surnames = <<>>
       THEN Abort("IndexError") /\ UNCHANGED <<stdout, ret>>
       ELSE /\ \E g \in Range(jp_names), w \in Range(west_surnames) :
                  stdout' = <<generate_name(g, w), Slug(generate_name(g, w))>>
            /\ ret' = 0
            /\ pc' = "exited"
            /\ exit_status' = ProcessExitStatus(0, error)
            /\ UNCHANGED error
    /\ UNCHANGED <<varsP, varsF, varsS, varsM, parsed, names, jp_names,
                   west_surnames>>

\* the process is killed: the files stay as the last step left them
Kill ==
    /\ Running
    /\ pc' = "exited"
    /\ error' = "killed"
    /\ exit_status' = 137
    /\ UNCHANGED <<varsP, varsF, varsS, varsM, varsO>>

\* between runs, the user puts or replaces a file of the data directory
EnvStep ==
    /\ ~Running
    /\ \/ jm_xml' \in Dicts /\ UNCHANGED <<jm_gz, jm_zip, csv, us_zip, cache>>
       \/ jm_gz' \in Dicts /\ UNCHANGED <<jm_xml, jm_zip, csv, us_zip, cache>>
       \/ jm_zip' \in {"d1", "nomember"}
             /\ UNCHANGED <<jm_xml, jm_gz, csv, us_zip, cache>>
       \/ csv' \in {"names", "nostrings", "malformed"}
             /\ UNCHANGED <<jm_xml, jm_gz, jm_zip, us_zip, cache>>
       \/ us_zip' = "good" /\ UNCHANGED <<jm_xml, jm_gz, jm_zip, csv, cache>>
       \/ cache' \in EnvCaches /\ UNCHANGED <<jm_xml, jm_gz, jm_zip, csv, us_zip>>
    /\ UNCHANGED jm_tmp
    /\ pc' = "idle"
    /\ error' = "none"
    /\ exit_status' = -1
    /\ jp_names_available' = FALSE
    /\ dictAtStart' = FALSE
    /\ censusAtStart' = FALSE
    /\ prevOk' = FALSE
    /\ attempts' = <<>>
    /\ last_error' = 0
    /\ cause' = 0
    /\ fetched' = {}
    /\ parsed' = FALSE
    /\ names' = <<>>
    /\ jp_names' = <<>>
    /\ west_surnames' = <<>>
    /\ stdout' = <<>>
    /\ ret' = -1
    /\ UNCHANGED varsP

Init ==
    /\ InitIdle
    /\ stream = <<>>
    /\ idx = 1
    /\ given_names = {}
    /\ fallback_candidates = {}
    /\ total_entries = 0
    /\ processed_entries = 0
    /\ base = NoBase
    /\ romaji = NoBase
    /\ outcome = "none"
    /\ pcP = "returned"
    /\ result = <<>>

Next ==
    \/ StartRun
    \/ DownloadCheck
    \/ TryMirror
    \/ ExtractZipOpen
    \/ ZipCopy
    \/ ZipRename
    \/ ExtractGzOpen
    \/ GzCopy
    \/ CensusFetch
    \/ CensusUnzip
    \/ Parse
    \/ CacheOpen
    \/ CacheWrite
    \/ Load
    \/ Surnames
    \/ Generate
    \/ Kill
    \/ EnvStep

Spec == Init /\ [][Next]_vars

----------------------------------------------------------------------------
(* parse_japanese_names as a state machine.                                *)

InitParse ==
    /\ stream \in Streams
    /\ idx = 1
    /\ given_names = {}
    /\ fallback_candidates = {}
    /\ total_entries = 0
    /\ processed_entries = 0
    /\ base = NoBase
    /\ romaji = NoBase
    /\ outcome = "none"
    /\ pcP = "loop"
    /\ result = <<>>
    /\ InitIdle

\* for event, elem in context: one iteration
ParseElement ==
    /\ pcP = "loop"
    /\ idx <= Len(stream)
    /\ LET n == LoopBody(given_names, fallback_candidates, stream[idx])
       IN  /\ given_names' = n.given
           /\ fallback_candidates' = n.fallback
           /\ base' = n.base
           /\ romaji' = n.romaji
           /\ outcome' = n.outcome
           /\ processed_entries' =
                 IF n.outcome = "not_entry" THEN processed_entries
                 ELSE processed_entries + 1
    /\ total_entries' = total_entries + 1
    /\ idx' = idx + 1
    /\ UNCHANGED <<stream, pcP, result>>

\* the stream is exhausted and nothing was collected
ParseRaise ==
    /\ pcP = "loop"
    /\ idx > Len(stream)
    /\ Combined(given_names, fallback_candidates) = {}
    /\ pcP' = "raised"
    /\ UNCHANGED <<stream, idx, given_names, fallback_candidates, total_entries,
                   processed_entries, base, romaji, outcome, result>>

\* the stream is exhausted: return sorted(combined)
ParseReturn ==
    /\ pcP = "loop"
    /\ idx > Len(stream)
    /\ Combined(given_names, fallback_candidates) # {}
    /\ result' = Sorted(Combined(given_names, fallback_candidates))
    /\ pcP' = "returned"
    /\ UNCHANGED <<stream, idx, given_names, fallback_candidates, total_entries,
                   processed_entries, base, romaji, outcome>>

NextParse ==
    \/ ParseElement /\ UNCHANGED <<varsF, varsR>>
    \/ ParseRaise /\ UNCHANGED <<varsF, varsR>>
    \/ ParseReturn /\ UNCHANGED <<varsF, varsR>>

SpecParse == InitParse /\ [][NextParse]_vars

----------------------------------------------------------------------------
(* Properties of parse_japanese_names.                                     *)

\* a is before b in the order of sorted(): at the first position where they
\* differ a has the smaller code point, or a ends there and b does not
Before(a, b) ==
    \E k \in 1..(Len(a) + 1) :
        /\ k <= Len(b)
        /\ \A i \in 1..(k - 1) : a[i] = b[i]
        /\ k = Len(a) + 1 \/ a[k] < b[k]

IsEntryWithReading(e) ==
    e.tag = "entry" /\ (kana_readings(e) # <<>> \/ kanji_readings(e) # <<>>)

\* the candidates accepted from the entries of a stream, tagged or not
AcceptedFrom(s) ==
    {r \in {to_romaji(ChooseBase(s[i])) :
                i \in {j \in DOMAIN s : IsEntryWithReading(s[j])}} : NameOk(r)}

WellFormedName(n) ==
    /\ Len(n) >= 2
    /\ Len(n) <= 14
    /\ IsAlpha(n[1])
    /\ \A i \in 2..Len(n) : IsAlpha(n[i]) \/ n[i] = 39 \/ n[i] = 45 \/ n[i] = 32

BoundaryBad(r) ==
    \/ Len(r) = 1
    \/ Len(r) = 15
    \/ r # <<>> /\ (r[1] \in 48..57 \/ r[1] = 45)

C2_Shape ==
    \A n \in given_names \union fallback_candidates \union Range(result) :
        WellFormedName(n)

\* an iteration whose romanized reading is of a rejected shape adds nothing,
\* raises nothing and leaves the loop going at the next element
C2_SkipStep ==
    (idx' = idx + 1 /\ BoundaryBad(romaji')) =>
        /\ outcome' = "rejected"
        /\ given_names' = given_names
        /\ fallback_candidates' = fallback_candidates
        /\ pcP' = "loop"

\* C2: every name in either result set and in the output has length 2..14 and
\* is one letter followed by letters, apostrophes, hyphens or spaces; a
\* romanized reading of length 1 or 15, or one starting with a digit or a
\* hyphen, is skipped without an error and the pass goes on.
C2_ValidNames == [](C2_Shape) /\ [][C2_SkipStep]_varsP

C2_Witness ==
    /\ pcP = "returned"
    /\ stream = <<Entry(<<>>, <<Kana15>>, <<>>),
                  Entry(<<Given>>, <<KanaA>>, <<>>),
                  Entry(<<Given>>, <<Kana14>>, <<>>)>>
    /\ Len(result) = 1
    /\ Len(result[1]) = 14

\* b is the first of the shortest texts of xs
FirstShortest(b, xs) ==
    \E i \in DOMAIN xs :
        /\ xs[i] = b
        /\ \A j \in DOMAIN xs : Len(xs[j]) >= Len(b)
        /\ \A j \in 1..(i - 1) : Len(xs[j]) > Len(b)

PureKana(r) == \A i \in DOMAIN r : r[i] >= 12352 /\ r[i] <= 12543

\* C10: the reading romanized for an entry is the first of the shortest pure
\* kana readings, or of all kana readings when none is pure kana, or of the
\* kanji readings when there is no kana reading; a kanji reading is never
\* chosen when a kana reading exists; an entry without a reading is skipped.
C10_ReadingChoice ==
    (idx > 1 /\ stream[idx - 1].tag = "entry") =>
        LET e == stream[idx - 1]
            kana == kana_readings(e)
            kanji == kanji_readings(e)
            pure == SelectSeq(kana, PureKana)
        IN  /\ (kana # <<>> /\ pure # <<>>) => FirstShortest(base, pure)
            /\ (kana # <<>> /\ pure = <<>>) => FirstShortest(base, kana)
            /\ (kana = <<>> /\ kanji # <<>>) => FirstShortest(base, kanji)
            /\ kana # <<>> => base \in Range(kana) /\ base \notin Range(kanji)
            /\ (kana = <<>> /\ kanji = <<>>) =>
                   /\ outcome = "no_reading"
                   /\ base = NoBase
            /\ (kana # <<>> \/ kanji # <<>>) => romaji = to_romaji(base)

C10_Witness ==
    /\ idx = 2
    /\ stream[1].reb = <<KanaKoi, KanaAi>>
    /\ stream[1].keb = <<KanjiAi>>
    /\ base = KanaKoi
    /\ outcome = "given"

----------------------------------------------------------------------------
(* Properties of the runs.                                                 *)

MirrorUrls == {Sources[i].url : i \in DOMAIN Sources}

C4_XmlWholeWhenPresent ==
    (~Running /\ jm_xml # "absent") => jm_xml \in Dicts

CacheNonEmpty == cache.exists /\ cache.lines # <<>>

C6_CacheFailureAbsorbed == error # "CacheWriteError"

\* C7: a run that completed data preparation and then loaded no names ends
\* with a non-zero exit status and prints neither a name nor a slug; a run
\* that prints a name and its slug ends with status zero.
C7_NoNamesNonZeroExit ==
    /\ (pc = "exited" /\ ret = 1) =>
          /\ exit_status # 0
          /\ stdout = <<NoNamesMessage>>
    /\ (pc = "exited" /\ Len(stdout) = 2) => exit_status = 0

\* C8: a run contacts no dictionary mirror when a form of the dictionary
\* existed at its start, and not the surname URL when the CSV or the surname
\* zip existed; a run that follows a successful run fetches nothing.
C8_NoFetchWhenPresent ==
    /\ dictAtStart => fetched \intersect MirrorUrls = {}
    /\ censusAtStart => CensusUrl \notin fetched
    /\ prevOk => fetched = {}

C8_Witness ==
    /\ pc = "exited"
    /\ prevOk
    /\ ret = 0
    /\ jm_xml = "d1"
    /\ jm_gz = "d1"
    /\ us_zip = "good"

\* C9: generate_name is invoked only with a non-empty given-name sequence
\* and a non-empty surname sequence.
C9_GeneratePrecondition ==
    pc = "generate" => jp_names # <<>> /\ west_surnames # <<>>

====
